---- MODULE Spec2Model ----
\* Ledger store (tables casos / abonos) and summary of control_abonos_app.py.
\*
\* One user's SQLite store is the state: the rows of casos and abonos and the
\* two AUTOINCREMENT sequences.  Every CRUD function of the source is one
\* action; the read-only queries (fetch_casos, fetch_abonos, resumen_por_caso)
\* are operators over the current rows.  Text is a sequence of one-character
\* strings so that str.strip() is computed; amounts are exact numbers in units
\* of 100 (the source stores them in REAL columns).  The columns observaciones,
\* creado_en and creado_por are written verbatim and never read by any
\* modelled code, so rows do not carry them.
\*
\* casos, abonos, seqCasos and seqAbonos are the database file the session has
\* open; esquema is the columns of its two tables, usuario the logged-in user
\* and archivos the other database files, by path.  emitidos is the history
\* of the ids that have been stored in each table of the open file.
EXTENDS Integers, Sequences, FiniteSets, TLC

VARIABLES casos, abonos, seqCasos, seqAbonos, ret, emitidos, esquema, usuario, archivos

vars == <<casos, abonos, seqCasos, seqAbonos, ret, emitidos, esquema, usuario, archivos>>

\* ---------------------------------------------------------------- bounds
\* Number of case ids / payment ids the store may issue in a run of Spec and
\* SpecCasos, and in a run of SpecResumen.
MaxCasos == 2
MaxAbonos == 2
MaxCasosResumen == 2
MaxAbonosResumen == 3
MaxCasosUsuarios == 1
MaxAbonosUsuarios == 1

\* ------------------------------------------------------- Python values
\* A Python argument is None, a str or a number.
None == [t |-> "none", s |-> <<>>, n |-> 0]
Str(s) == [t |-> "str", s |-> s, n |-> 0]
Num(n) == [t |-> "num", s |-> <<>>, n |-> n]

\* bool(v): None, "" and 0 are falsy.
Truthy(v) ==
    CASE v.t = "none" -> FALSE
      [] v.t = "str" -> v.s # <<>>
      [] OTHER -> v.n # 0

IsSpace(ch) == ch = " "

RECURSIVE LStrip(_)
LStrip(s) == IF s # <<>> /\ IsSpace(Head(s)) THEN LStrip(Tail(s)) ELSE s

RECURSIVE RStrip(_)
RStrip(s) ==
    IF s # <<>> /\ IsSpace(s[Len(s)]) THEN RStrip(SubSeq(s, 1, Len(s) - 1)) ELSE s

\* str.strip()
strip(s) == RStrip(LStrip(s))

\* SQL "a = b": never true when either side is NULL.
SqlEq(a, b) == a.t # "none" /\ b.t # "none" /\ a = b

\* "Todos": the option that stands for "no filter" in the summary tab.
Todos == Str(<<"T", "o", "d", "o", "s">>)

\* ------------------------------------------------------------- results
\* The messages of the ValueErrors the source raises.
MsgClienteObligatorio == "El nombre del cliente es obligatorio."
MsgYaExiste == "Ya existe un caso con ese cliente y descripcion."
MsgIdInvalido == "ID de caso invalido."
MsgNoExiste == "No existe el caso con id."
MsgMontoInvalido == "Monto invalido."
MsgMontoMayorCero == "El monto debe ser mayor que cero."
MsgForeignKey == "FOREIGN KEY constraint failed"
MsgNotNull == "NOT NULL constraint failed"

\* What a call gave back: the exception raised ("none" when it returned) with
\* its message, and the returned lastrowid / rowcount (0 when the function
\* returns None).
Ok(v) == [exc |-> "none", msg |-> "", val |-> v]
Raise(e, m) == [exc |-> e, msg |-> m, val |-> 0]

CasoIds == {c.id : c \in casos}
AbonoIds == {a.id : a \in abonos}

\* ---------------------------------------------------------------- schema
\* The columns the two CREATE TABLE statements give each table.
ColumnasCasos ==
    <<"id", "cliente", "descripcion", "valor_acordado", "etapa", "observaciones", "creado_en">>
ColumnasAbonos == <<"id", "fecha", "monto", "caso_id", "observaciones", "creado_en">>

\* A database file without tables.
SinTablas == [casos |-> <<>>, abonos |-> <<>>]

\* PRAGMA table_info(table): the names of the columns.
Columnas(esq, table) == {esq[table][k] : k \in 1..Len(esq[table])}

\* CREATE TABLE without IF NOT EXISTS: an existing table is an error.
CreaTablaSinIfNotExists(esq, table, cols) ==
    [ok |-> esq[table] = <<>>,
     esq |-> IF esq[table] # <<>> THEN esq ELSE [esq EXCEPT ![table] = cols]]

\* CREATE TABLE IF NOT EXISTS
CreaTabla(esq, table, cols) ==
    [ok |-> TRUE,
     esq |-> IF esq[table] # <<>> THEN esq ELSE [esq EXCEPT ![table] = cols]]

\* ALTER TABLE ADD COLUMN when the column is not listed; the error of an
\* ALTER on a missing table is logged and swallowed.
ensure_column(esq, table, column) ==
    IF column \notin Columnas(esq, table) /\ esq[table] # <<>>
    THEN [esq EXCEPT ![table] = Append(@, column)]
    ELSE esq

\* The schema init_db leaves when neither CREATE TABLE fails.
EsquemaTrasInitDb(esq) ==
    ensure_column(
        ensure_column(
            CreaTabla(CreaTabla(esq, "casos", ColumnasCasos).esq, "abonos", ColumnasAbonos).esq,
            "casos", "creado_por"),
        "abonos", "creado_por")

MsgTablaExiste == "table already exists"

init_db ==
    LET c1 == CreaTabla(esquema, "casos", ColumnasCasos)
        c2 == CreaTabla(c1.esq, "abonos", ColumnasAbonos)
    IN /\ IF ~c1.ok
          THEN ret' = Raise("OperationalError", MsgTablaExiste) /\ esquema' = esquema
          ELSE IF ~c2.ok
          THEN ret' = Raise("OperationalError", MsgTablaExiste) /\ esquema' = c1.esq
          ELSE /\ esquema' = ensure_column(ensure_column(c2.esq, "casos", "creado_por"),
                                           "abonos", "creado_por")
               /\ ret' = Ok(0)
       /\ UNCHANGED <<casos, abonos, seqCasos, seqAbonos>>

\* ----------------------------------------------------------------- users
\* [A-Za-z0-9_-]
Permitidos ==
    {"A", "B", "C", "D", "E", "F", "G", "H", "I", "J", "K", "L", "M",
     "N", "O", "P", "Q", "R", "S", "T", "U", "V", "W", "X", "Y", "Z",
     "a", "b", "c", "d", "e", "f", "g", "h", "i", "j", "k", "l", "m",
     "n", "o", "p", "q", "r", "s", "t", "u", "v", "w", "x", "y", "z",
     "0", "1", "2", "3", "4", "5", "6", "7", "8", "9", "_", "-"}

Anonymous == <<"a", "n", "o", "n", "y", "m", "o", "u", "s">>

\* The text of the safe token of a user name.
sanitize_username(username) ==
    IF ~Truthy(username) THEN Anonymous
    ELSE [k \in 1..Len(username.s) |->
            IF username.s[k] \in Permitidos THEN username.s[k] ELSE "_"]

\* DB_FILENAME_TEMPLATE.format(user=safe)
get_db_path_for_user(username) ==
    <<"control_abonos_">> \o sanitize_username(username) \o <<".db">>

\* The user names that can log in.
Usuarios == {Str(<<"a", ".", "b">>), Str(<<"a", "_", "b">>), Str(<<"c">>)}
Rutas == {get_db_path_for_user(u) : u \in Usuarios}

\* The rows and sequences of one database file, with the history of its ids.
AlmacenVacio ==
    [casos |-> {}, abonos |-> {}, seqCasos |-> 0, seqAbonos |-> 0,
     emitidos |-> [casos |-> {}, abonos |-> {}]]
AlmacenAbierto ==
    [casos |-> casos, abonos |-> abonos, seqCasos |-> seqCasos, seqAbonos |-> seqAbonos,
     emitidos |-> emitidos]

\* What get_connection_for_user(username) opens.
AlmacenDe(username) ==
    IF get_db_path_for_user(username) = get_db_path_for_user(usuario)
    THEN AlmacenAbierto
    ELSE archivos[get_db_path_for_user(username)]

\* A user logs in: main opens that user's file and runs init_db on it.
login(user) ==
    /\ usuario' = user
    /\ archivos' = [archivos EXCEPT ![get_db_path_for_user(usuario)] = AlmacenAbierto]
    /\ casos' = AlmacenDe(user).casos
    /\ abonos' = AlmacenDe(user).abonos
    /\ seqCasos' = AlmacenDe(user).seqCasos
    /\ seqAbonos' = AlmacenDe(user).seqAbonos
    /\ emitidos' = AlmacenDe(user).emitidos
    /\ esquema' = EsquemaTrasInitDb(esquema)
    /\ ret' = Ok(0)

\* The ids stored so far, and what a call on the store leaves alone.
Historia ==
    emitidos' = [casos |-> emitidos.casos \cup {c.id : c \in casos'},
                 abonos |-> emitidos.abonos \cup {a.id : a \in abonos'}]
Marco == Historia /\ UNCHANGED <<esquema, usuario, archivos>>

\* The state after the first login: an empty file on which init_db has run.
Init ==
    /\ casos = {}
    /\ abonos = {}
    /\ seqCasos = 0
    /\ seqAbonos = 0
    /\ ret = Ok(0)
    /\ emitidos = [casos |-> {}, abonos |-> {}]
    /\ esquema = EsquemaTrasInitDb(SinTablas)
    /\ usuario = Str(<<"c">>)
    /\ archivos = [r \in Rutas |-> AlmacenVacio]

\* ------------------------------------------------------------------ CRUD

\* SELECT COUNT(*) FROM casos WHERE cliente = ? AND descripcion = ?
CountCasos(cliente, descripcion) ==
    Cardinality({c \in casos : SqlEq(c.cliente, cliente) /\ SqlEq(c.descripcion, descripcion)})

\* float(valor_acordado or 0)
FloatOr0(v) == IF Truthy(v) THEN v.n ELSE 0

\* The largest rowid of a table, 0 when it has no rows.
MaxId(ids) == IF ids = {} THEN 0 ELSE CHOOSE x \in ids : \A y \in ids : y <= x

\* The rowid of INTEGER PRIMARY KEY without AUTOINCREMENT: one more than the
\* largest rowid now in the table.
NuevoIdCasoSinAutoincrement == MaxId(CasoIds) + 1

\* INTEGER PRIMARY KEY AUTOINCREMENT: one more than the largest rowid the
\* table has ever held.
NuevoIdCaso == seqCasos + 1
NuevoIdAbono == seqAbonos + 1

\* The cliente bound as passed, without cliente.strip().
ClienteSinStrip(cliente) == cliente

\* The cliente value add_caso binds to the INSERT.
ClienteInsertado(cliente) == Str(strip(cliente.s))

add_caso(cliente, descripcion, valor_acordado, etapa) ==
    IF ~Truthy(cliente) \/ strip(cliente.s) = <<>>
    THEN /\ ret' = Raise("ValueError", MsgClienteObligatorio)
         /\ UNCHANGED <<casos, abonos, seqCasos, seqAbonos>>
    ELSE IF CountCasos(cliente, descripcion) > 0
    THEN /\ ret' = Raise("ValueError", MsgYaExiste)
         /\ UNCHANGED <<casos, abonos, seqCasos, seqAbonos>>
    ELSE /\ casos' = casos \cup
              {[id |-> NuevoIdCaso,
                cliente |-> ClienteInsertado(cliente),
                descripcion |-> descripcion,
                valor_acordado |-> FloatOr0(valor_acordado),
                etapa |-> etapa]}
         /\ seqCasos' = NuevoIdCaso
         /\ ret' = Ok(NuevoIdCaso)
         /\ UNCHANGED <<abonos, seqAbonos>>

\* UPDATE casos SET ... WHERE id=?  (cliente is NOT NULL in the schema)
edit_caso(caso_id, cliente, descripcion, valor_acordado, etapa) ==
    IF caso_id \in CasoIds /\ cliente.t = "none"
    THEN /\ ret' = Raise("IntegrityError", MsgNotNull)
         /\ UNCHANGED <<casos, abonos, seqCasos, seqAbonos>>
    ELSE /\ casos' = {IF c.id = caso_id
                      THEN [id |-> c.id,
                            cliente |-> cliente,
                            descripcion |-> descripcion,
                            valor_acordado |-> FloatOr0(valor_acordado),
                            etapa |-> etapa]
                      ELSE c : c \in casos}
         /\ ret' = Ok(Cardinality({c \in casos : c.id = caso_id}))
         /\ UNCHANGED <<abonos, seqCasos, seqAbonos>>

\* DELETE FROM abonos without its WHERE clause.
delete_caso_sin_where(caso_id) ==
    /\ abonos' = {}
    /\ casos' = {c \in casos : c.id # caso_id}
    /\ ret' = Ok(0)
    /\ UNCHANGED <<seqCasos, seqAbonos>>

delete_caso(caso_id) ==
    /\ abonos' = {a \in abonos : a.caso_id # caso_id}
    /\ casos' = {c \in casos : c.id # caso_id}
    /\ ret' = Ok(0)
    /\ UNCHANGED <<seqCasos, seqAbonos>>

\* The date a payment is stored under, as a day number relative to the
\* current date: a date object is kept, anything else that does not parse
\* falls back to the current date (day 0).
FechaIso(fecha) == IF fecha.t = "num" THEN fecha.n ELSE 0

\* A connection opened without PRAGMA foreign_keys = ON checks nothing.
ForeignKeyOff(caso_id) == TRUE

\* FOREIGN KEY(caso_id) REFERENCES casos(id), enforced on every connection by
\* PRAGMA foreign_keys = ON.
ForeignKeyOk(caso_id) == caso_id \in CasoIds

\* add_abono without its existence query.
ExisteCasoSinConsulta(caso_id) == TRUE

\* SELECT 1 FROM casos WHERE id = ?
ExisteCaso(caso_id) == \E c \in casos : c.id = caso_id

\* monto_val < 0: a zero amount passes.
MontoRechazadoSoloNegativo(monto_val) == monto_val < 0

\* monto_val <= 0
MontoRechazado(monto_val) == monto_val <= 0

add_abono(fecha, monto, caso_id) ==
    IF caso_id.t # "num"
    THEN /\ ret' = Raise("ValueError", MsgIdInvalido)
         /\ UNCHANGED <<casos, abonos, seqCasos, seqAbonos>>
    ELSE IF ~ExisteCaso(caso_id.n)
    THEN /\ ret' = Raise("ValueError", MsgNoExiste)
         /\ UNCHANGED <<casos, abonos, seqCasos, seqAbonos>>
    ELSE IF monto.t # "num"
    THEN /\ ret' = Raise("ValueError", MsgMontoInvalido)
         /\ UNCHANGED <<casos, abonos, seqCasos, seqAbonos>>
    ELSE IF MontoRechazado(monto.n)
    THEN /\ ret' = Raise("ValueError", MsgMontoMayorCero)
         /\ UNCHANGED <<casos, abonos, seqCasos, seqAbonos>>
    ELSE IF ~ForeignKeyOk(caso_id.n)
    THEN /\ ret' = Raise("IntegrityError", MsgForeignKey)
         /\ UNCHANGED <<casos, abonos, seqCasos, seqAbonos>>
    ELSE /\ abonos' = abonos \cup
              {[id |-> NuevoIdAbono,
                fecha |-> FechaIso(fecha),
                monto |-> monto.n,
                caso_id |-> caso_id.n]}
         /\ seqAbonos' = NuevoIdAbono
         /\ ret' = Ok(NuevoIdAbono)
         /\ UNCHANGED <<casos, seqCasos>>

edit_abono(abono_id, fecha, monto, caso_id) ==
    IF abono_id \in AbonoIds /\ ~ForeignKeyOk(caso_id)
    THEN /\ ret' = Raise("IntegrityError", MsgForeignKey)
         /\ UNCHANGED <<casos, abonos, seqCasos, seqAbonos>>
    ELSE /\ abonos' = {IF a.id = abono_id
                       THEN [id |-> a.id,
                             fecha |-> FechaIso(fecha),
                             monto |-> monto,
                             caso_id |-> caso_id]
                       ELSE a : a \in abonos}
         /\ ret' = Ok(Cardinality({a \in abonos : a.id = abono_id}))
         /\ UNCHANGED <<casos, seqCasos, seqAbonos>>

\* DELETE FROM abonos without its WHERE clause.
delete_abono_sin_where(abono_id) ==
    /\ abonos' = {}
    /\ ret' = Ok(0)
    /\ UNCHANGED <<casos, seqCasos, seqAbonos>>

delete_abono(abono_id) ==
    /\ abonos' = {a \in abonos : a.id # abono_id}
    /\ ret' = Ok(0)
    /\ UNCHANGED <<casos, seqCasos, seqAbonos>>

\* --------------------------------------------------------------- queries

RECURSIVE OrderById(_)
OrderById(S) ==
    IF S = {} THEN <<>>
    ELSE LET m == CHOOSE x \in S : \A y \in S : x.id <= y.id
         IN <<m>> \o OrderById(S \ {m})

\* ORDER BY fecha DESC, id DESC
RECURSIVE OrderByFechaDesc(_)
OrderByFechaDesc(S) ==
    IF S = {} THEN <<>>
    ELSE LET m == CHOOSE x \in S : \A y \in S :
                      x.fecha > y.fecha \/ (x.fecha = y.fecha /\ x.id >= y.id)
         IN <<m>> \o OrderByFechaDesc(S \ {m})

\* "if cliente_filter and cliente_filter != 'Todos'"
FilterOn(f) == Truthy(f) /\ f # Todos

fetch_casos(cliente_filter, etapa_filter) ==
    OrderById({c \in casos :
        /\ FilterOn(cliente_filter) => SqlEq(c.cliente, cliente_filter)
        /\ FilterOn(etapa_filter) => SqlEq(c.etapa, etapa_filter)})

fetch_abonos(caso_id) ==
    OrderByFechaDesc(
        {[id |-> a.id, fecha |-> a.fecha, monto |-> a.monto, caso_id |-> a.caso_id,
          cliente |-> c.cliente, descripcion |-> c.descripcion] :
            <<a, c>> \in {p \in abonos \X casos :
                /\ p[1].caso_id = p[2].id
                /\ Truthy(caso_id) => p[1].caso_id = caso_id.n}})

RECURSIVE SumMontos(_)
SumMontos(S) ==
    IF S = {} THEN 0
    ELSE LET a == CHOOSE x \in S : TRUE IN a.monto + SumMontos(S \ {a})

\* A mis-written aggregate: the amount of one payment of the case, not the sum.
GroupTotalSinSuma(k) == (CHOOSE a \in abonos : a.caso_id = k).monto

\* SELECT caso_id, SUM(monto) as total_abonado FROM abonos GROUP BY caso_id
GroupTotal(k) == SumMontos({a \in abonos : a.caso_id = k})
Grouped == [k \in {a.caso_id : a \in abonos} |-> GroupTotal(k)]

WithTotal(c, total) ==
    [id |-> c.id, cliente |-> c.cliente, descripcion |-> c.descripcion,
     valor_acordado |-> c.valor_acordado, etapa |-> c.etapa,
     total_abonado |-> total]

\* merge(how="inner"): the cases without a payment are dropped.
MergeInner(rows) ==
    LET kept == SelectSeq(rows, LAMBDA c : c.id \in DOMAIN Grouped)
    IN [k \in 1..Len(kept) |-> WithTotal(kept[k], Grouped[kept[k].id])]

\* casos.merge(abonos, left_on="id", right_on="caso_id", how="left") and
\* total_abonado.fillna(0.0)
MergeLeft(rows) ==
    [k \in 1..Len(rows) |->
        WithTotal(rows[k], IF rows[k].id \in DOMAIN Grouped THEN Grouped[rows[k].id] ELSE 0)]

resumen_por_caso(cliente_filter, etapa_filter) ==
    LET rows == fetch_casos(cliente_filter, etapa_filter)
        merged == MergeLeft(rows)
    IN IF rows = <<>> THEN <<>>
       ELSE [k \in 1..Len(merged) |->
               [id |-> merged[k].id,
                cliente |-> merged[k].cliente,
                descripcion |-> merged[k].descripcion,
                valor_acordado |-> merged[k].valor_acordado,
                total_abonado |-> merged[k].total_abonado,
                saldo_pendiente |-> merged[k].valor_acordado - merged[k].total_abonado,
                etapa |-> merged[k].etapa]]

\* display["estado"]
Estado(x) == IF x > 0 THEN "Pendiente" ELSE "Pagado"

\* ---------------------------------------------------------------- inputs
A == Str(<<"A">>)
B == Str(<<"B">>)
D == Str(<<"D">>)
Abierto == Str(<<"O">>)
Vacio == Str(<<>>)

\* Spec: the whole store, few kinds of case, payments of any sign.
Clientes == {A, B}
Descripciones == {D}
Valores == {Num(10)}
Etapas == {Abierto}
Fechas == {Num(-1)}
Montos == {None, Num(-1), Num(0), Num(5)}
EditMontos == {0, 2}
CasoIdArgs == {Num(k) : k \in 1..MaxCasos} \cup {Num(999), None}

AddCaso == /\ seqCasos < MaxCasos
           /\ \E cl \in Clientes, d \in Descripciones, v \in Valores, e \in Etapas :
                add_caso(cl, d, v, e)
           /\ Marco
EditCaso == /\ \E i \in 1..MaxCasos, cl \in Clientes, d \in Descripciones,
                  v \in Valores, e \in Etapas :
                edit_caso(i, cl, d, v, e)
            /\ Marco
DeleteCaso == (\E i \in 1..MaxCasos : delete_caso(i)) /\ Marco
AddAbono == /\ seqAbonos < MaxAbonos
            /\ \E f \in Fechas, m \in Montos, i \in CasoIdArgs : add_abono(f, m, i)
            /\ Marco
EditAbono == /\ \E a \in 1..MaxAbonos, f \in Fechas, m \in EditMontos, i \in 1..MaxCasos :
                edit_abono(a, f, m, i)
             /\ Marco
DeleteAbono == (\E a \in 1..MaxAbonos : delete_abono(a)) /\ Marco

Next == AddCaso \/ EditCaso \/ DeleteCaso \/ AddAbono \/ EditAbono \/ DeleteAbono

Spec == Init /\ [][Next]_vars

\* SpecCasos: the case table alone, with clients and descriptions of every
\* shape add_caso distinguishes (None, empty, blank, padded).
ClientesC == {None, Vacio, Str(<<" ">>), A, Str(<<" ", "A">>), B}
DescripcionesC == {None, D}
ValoresC == {None, Num(-1), Num(0), Num(10)}
EditClientesC == {None, A, B}

AddCasoC == /\ seqCasos < MaxCasos
            /\ \E cl \in ClientesC, d \in DescripcionesC, v \in ValoresC :
                 add_caso(cl, d, v, Vacio)
            /\ Marco
EditCasoC == /\ \E i \in 1..MaxCasos, cl \in EditClientesC, d \in DescripcionesC,
                   v \in ValoresC :
                 edit_caso(i, cl, d, v, Vacio)
             /\ Marco
DeleteCasoC == (\E i \in 1..MaxCasos : delete_caso(i)) /\ Marco

NextCasos == AddCasoC \/ EditCasoC \/ DeleteCasoC

SpecCasos == Init /\ [][NextCasos]_vars

\* SpecResumen: stores built by adding cases of several clients, values and
\* stages and payments of 200, 300 and 500, for the summary.
ValoresR == {Num(0), Num(10)}
EtapasR == {Vacio, Abierto}
MontosR == {Num(2), Num(3), Num(5)}

AddCasoR == /\ seqCasos < MaxCasosResumen
            /\ \E cl \in Clientes, v \in ValoresR, e \in EtapasR : add_caso(cl, D, v, e)
            /\ Marco
AddAbonoR == /\ seqAbonos < MaxAbonosResumen
             /\ \E m \in MontosR, i \in 1..MaxCasosResumen : add_abono(Num(-1), m, Num(i))
             /\ Marco

NextResumen == AddCasoR \/ AddAbonoR

SpecResumen == Init /\ [][NextResumen]_vars

\* Several users: each logs in and works on the file its name gives.
LoginU == \E u \in Usuarios : login(u)
AddCasoU == /\ seqCasos < MaxCasosUsuarios
            /\ \E cl \in Clientes : add_caso(cl, D, Num(10), Abierto)
            /\ Marco
DeleteCasoU == (\E i \in 1..MaxCasosUsuarios : delete_caso(i)) /\ Marco
AddAbonoU == /\ seqAbonos < MaxAbonosUsuarios
             /\ \E i \in 1..MaxCasosUsuarios : add_abono(Num(-1), Num(5), Num(i))
             /\ Marco

NextUsuarios == LoginU \/ AddCasoU \/ DeleteCasoU \/ AddAbonoU

SpecUsuarios == Init /\ [][NextUsuarios]_vars

\* Schema creation: the file starts without tables, or with the tables of a
\* version without creado_por, or with one table only; main runs init_db on
\* every rerun, and rows are written once the schema is there.
EsquemasIniciales ==
    {SinTablas,
     [casos |-> ColumnasCasos, abonos |-> ColumnasAbonos],
     [casos |-> ColumnasCasos, abonos |-> <<>>]}

InitEsquema ==
    /\ casos = {}
    /\ abonos = {}
    /\ seqCasos = 0
    /\ seqAbonos = 0
    /\ ret = Ok(0)
    /\ emitidos = [casos |-> {}, abonos |-> {}]
    /\ esquema \in EsquemasIniciales
    /\ usuario = Str(<<"c">>)
    /\ archivos = [r \in Rutas |-> AlmacenVacio]

Creado == \A table \in {"casos", "abonos"} : "creado_por" \in Columnas(esquema, table)

InitDb == init_db /\ UNCHANGED <<emitidos, usuario, archivos>>
AddCasoE == Creado /\ AddCasoR
AddAbonoE == Creado /\ AddAbono

NextEsquema == InitDb \/ AddCasoE \/ AddAbonoE

SpecEsquema == InitEsquema /\ [][NextEsquema]_vars

\* Edits and deletions with ids that are stored and ids that are not, on
\* stores that hold Cases and Payments.
IdsF == (1..MaxCasos) \cup {999}
EditClientesF == Clientes \cup {None}

AddAbonoF == /\ seqAbonos < MaxAbonos
             /\ \E i \in 1..MaxCasos : add_abono(Num(-1), Num(5), Num(i))
             /\ Marco
EditCasoF == /\ \E i \in IdsF, cl \in EditClientesF : edit_caso(i, cl, D, Num(10), Abierto)
             /\ Marco
DeleteCasoF == (\E i \in IdsF : delete_caso(i)) /\ Marco
DeleteAbonoF == (\E a \in IdsF : delete_abono(a)) /\ Marco

NextFaltantes == AddCaso \/ AddAbonoF \/ EditCasoF \/ DeleteCasoF \/ DeleteAbonoF

SpecFaltantes == Init /\ [][NextFaltantes]_vars

\* ================================================================ claims

\* The argument sets the action properties range over: every argument any
\* specification passes.
ClienteArgs == Clientes \cup ClientesC
DescripcionArgs == Descripciones \cup DescripcionesC
ValorArgs == Valores \cup ValoresC \cup ValoresR
EtapaArgs == Etapas \cup EtapasR
MontoArgs == Montos \cup MontosR
FechaArgs == Fechas
IdArgs == CasoIdArgs \cup {Num(k) : k \in 1..(MaxCasosResumen + 1)}
IdsCaso == 1..(MaxCasos + MaxCasosResumen)

\* C1: no two stored Cases share the same (client, description) pair.
C1_NoDuplicatePair ==
    \A c1 \in casos, c2 \in casos :
        c1.id # c2.id => ~(c1.cliente = c2.cliente /\ c1.descripcion = c2.descripcion)

\* C2: every stored Payment's caseId is the id of a Case currently stored.
C2_PaymentsReferenceCases == \A a \in abonos : \E c \in casos : c.id = a.caso_id

\* A payment is stored, a case has been deleted, and an edit_abono that
\* pointed a payment at a missing case was refused by the foreign key.
C2_Witness ==
    /\ abonos # {}
    /\ Cardinality(casos) < seqCasos
    /\ ret.exc = "IntegrityError" /\ ret.msg = MsgForeignKey

\* C3: every stored Payment has an amount strictly greater than zero.
C3_AmountsPositive == \A a \in abonos : a.monto > 0

\* C4: add_abono with amount <= 0 and the id of an existing Case raises the
\* validation error and leaves the stored Payments and Cases as they were.
C4_NonPositiveAmountRejected ==
    [][\A m \in MontoArgs, i \in IdArgs, f \in FechaArgs :
          (/\ m.t = "num" /\ m.n <= 0
           /\ i.t = "num" /\ (\E c \in casos : c.id = i.n)
           /\ add_abono(f, m, i))
          => (/\ ret'.exc = "ValueError"
              /\ abonos' = abonos
              /\ casos' = casos)]_vars

\* A non-positive amount was refused while the store held a payment.
C4_Witness == ret.msg = MsgMontoMayorCero /\ abonos # {} /\ casos # {}

\* C5: add_abono with a caseId that is not the id of a stored Case (never
\* created, or deleted) raises the validation error, whatever the amount, and
\* inserts no Payment.
C5_MissingCaseRejected ==
    [][\A i \in IdArgs, m \in MontoArgs, f \in FechaArgs :
          (/\ ~(i.t = "num" /\ (\E c \in casos : c.id = i.n))
           /\ add_abono(f, m, i))
          => (/\ ret'.exc = "ValueError"
              /\ abonos' = abonos
              /\ seqAbonos' = seqAbonos)]_vars

\* A payment for a missing case was refused in a store that has cases, has
\* deleted one, and holds a payment.
C5_Witness ==
    /\ ret.msg = MsgNoExiste
    /\ casos # {} /\ Cardinality(casos) < seqCasos
    /\ abonos # {}

\* The client is empty or only whitespace.
Blank(cliente) == cliente.t = "str" /\ \A k \in 1..Len(cliente.s) : cliente.s[k] = " "

\* C6: add_caso raises the validation error and leaves the Cases unchanged
\* when the client is empty or only whitespace, or when a Case with the same
\* (client, description) pair is already stored.
C6_AddCasoRejects ==
    [][\A cl \in ClienteArgs, d \in DescripcionArgs, v \in ValorArgs, e \in EtapaArgs :
          (/\ \/ Blank(cl)
              \/ \E c \in casos : c.cliente = cl /\ c.descripcion = d
           /\ add_caso(cl, d, v, e))
          => (ret'.exc = "ValueError" /\ casos' = casos)]_vars

\* C7: after delete_caso(id) on a stored Case, the Case is gone, no Payment
\* has caseId = id, fetch_abonos(id) is empty, and every other Case and every
\* Payment of another Case is unchanged.
C7_DeleteCascades ==
    [][\A i \in IdsCaso :
          ((\E c \in casos : c.id = i) /\ delete_caso(i))
          => (/\ \A c \in casos' : c.id # i
              /\ \A a \in abonos' : a.caso_id # i
              /\ fetch_abonos(Num(i))' = <<>>
              /\ \A c \in casos : c.id # i => c \in casos'
              /\ casos' \subseteq casos
              /\ \A a \in abonos : a.caso_id # i => a \in abonos'
              /\ abonos' \subseteq abonos)]_vars

\* A case has been deleted by a call that returned None, and the payments of
\* another case are still stored.
C7_Witness ==
    /\ ret = Ok(0)
    /\ Cardinality(casos) < seqCasos
    /\ casos # {} /\ abonos # {}

RECURSIVE SumTotalAbonado(_)
SumTotalAbonado(rows) ==
    IF rows = <<>> THEN 0 ELSE Head(rows).total_abonado + SumTotalAbonado(Tail(rows))

AfterFirstAdd(stored, v) ==
    /\ \A listed \in {fetch_casos(None, None)'} :
          /\ Len(listed) = 1
          /\ listed[1].cliente = stored
          /\ listed[1].valor_acordado = v.n
    /\ \A r \in {resumen_por_caso(None, None)'} :
          /\ Len(r) = 1
          /\ r[1].total_abonado = 0
          /\ r[1].saldo_pendiente = v.n

\* C9 as stated: for every non-empty client and agreedValue >= 0, add_caso on
\* an empty store leaves exactly one listed Case with the client and the
\* agreedValue passed in, and its summary row has totalPaid = 0 and
\* pendingBalance = agreedValue.
C9_AsStated ==
    [][\A cl \in ClienteArgs, d \in DescripcionArgs, v \in ValorArgs, e \in EtapaArgs :
          (/\ casos = {} /\ abonos = {}
           /\ cl.t = "str" /\ cl.s # <<>>
           /\ v.t = "num" /\ v.n >= 0
           /\ add_caso(cl, d, v, e))
          => AfterFirstAdd(cl, v)]_vars

\* C9 amended: for every client that is not empty or only whitespace and
\* agreedValue >= 0, the one listed Case carries the client with its leading
\* and trailing whitespace removed, the agreedValue passed in, totalPaid = 0
\* and pendingBalance = agreedValue.
C9_Amended ==
    [][\A cl \in ClienteArgs, d \in DescripcionArgs, v \in ValorArgs, e \in EtapaArgs :
          (/\ casos = {} /\ abonos = {}
           /\ cl.t = "str" /\ ~Blank(cl)
           /\ v.t = "num" /\ v.n >= 0
           /\ add_caso(cl, d, v, e))
          => AfterFirstAdd(Str(strip(cl.s)), v)]_vars

\* The store holds the one case an add_caso has just returned the id of,
\* with a positive agreed value and a summary row that shows it all pending.
C9_Witness ==
    /\ Cardinality(casos) = 1
    /\ ret.exc = "none" /\ ret.val = seqCasos
    /\ \E c \in casos : c.id = ret.val /\ c.cliente = A /\ c.valor_acordado = 10
    /\ Len(resumen_por_caso(None, None)) = 1
    /\ resumen_por_caso(None, None)[1].saldo_pendiente = 10

\* The filters a caller may pass, and the cases a filter pair selects: a
\* filter that is absent (None, empty, or the "Todos" option) selects every
\* case, any other filter the cases with exactly that client / stage.
ClienteFiltros == {None, Vacio, Todos, A, B}
EtapaFiltros == {None, Vacio, Todos, Abierto}
Absent(f) == f = None \/ f = Vacio \/ f = Todos
Matching(cf, ef) ==
    {c \in casos : (Absent(cf) \/ c.cliente = cf) /\ (Absent(ef) \/ c.etapa = ef)}

\* C10: the summary has exactly one row per Case matching the filters, with
\* totalPaid the sum of the amounts of that Case's Payments (0 without any),
\* pendingBalance = agreedValue - totalPaid, and the derived status "Pendiente"
\* exactly when pendingBalance > 0 and "Pagado" otherwise.
C10_SummaryRows ==
    \A cf \in ClienteFiltros, ef \in EtapaFiltros :
        \A r \in {resumen_por_caso(cf, ef)} :
           /\ Len(r) = Cardinality(Matching(cf, ef))
           /\ \A c \in Matching(cf, ef) : \E k \in 1..Len(r) : r[k].id = c.id
           /\ \A k \in 1..Len(r) : \E c \in Matching(cf, ef) :
                LET paid == SumMontos({a \in abonos : a.caso_id = c.id})
                IN /\ r[k].id = c.id
                   /\ r[k].valor_acordado = c.valor_acordado
                   /\ r[k].total_abonado = paid
                   /\ r[k].saldo_pendiente = c.valor_acordado - paid
                   /\ (Estado(r[k].saldo_pendiente) = "Pendiente")
                        <=> (c.valor_acordado - paid > 0)
                   /\ Estado(r[k].saldo_pendiente) \in {"Pendiente", "Pagado"}

\* The scenario: a case of 1000 with payments of 300, 200 and 500 shows
\* 1000 paid, 0 pending and "Pagado", beside a case without payments.
C10_Witness ==
    \E c \in casos, a1 \in abonos, a2 \in abonos, a3 \in abonos :
        /\ c.valor_acordado = 10
        /\ a1.caso_id = c.id /\ a2.caso_id = c.id /\ a3.caso_id = c.id
        /\ a1.monto = 3 /\ a2.monto = 2 /\ a3.monto = 5
        /\ Cardinality(casos) = 2
        /\ \E k \in 1..Len(resumen_por_caso(None, None)) :
              LET row == resumen_por_caso(None, None)[k]
              IN /\ row.id = c.id
                 /\ row.total_abonado = 10
                 /\ row.saldo_pendiente = 0
                 /\ Estado(row.saldo_pendiente) = "Pagado"

\* C11: every stored Case has agreedValue >= 0 (a missing agreedValue is
\* stored as 0).
C11_AgreedValueNonNegative == \A c \in casos : c.valor_acordado >= 0

\* What a user sees: the Cases and Payments of the file the user's name opens
\* (the summary is computed from these two).
Visible(u) == [casos |-> AlmacenDe(u).casos, abonos |-> AlmacenDe(u).abonos]

\* C12: two distinct usernames always operate on distinct stores: a mutation
\* performed by the logged-in user never changes the Cases or Payments seen by
\* any other username.
C12_StoresIsolated ==
    [][\A u \in Usuarios :
         (u # usuario /\ usuario' = usuario) => Visible(u)' = Visible(u)]_vars

\* How many times a column is listed in a table.
Veces(esq, table, column) ==
    Cardinality({k \in 1..Len(esq[table]) : esq[table][k] = column})

\* C13: init_db is idempotent: a run of init_db raises no error and leaves
\* the stored rows as they were; it leaves both tables with creado_por
\* listed exactly once; and a run on a store where init_db has already run
\* (empty or holding rows) leaves the tables and their columns identical.
C13_InitDbIdempotent ==
    [][init_db =>
          /\ ret'.exc = "none"
          /\ casos' = casos /\ abonos' = abonos
          /\ seqCasos' = seqCasos /\ seqAbonos' = seqAbonos
          /\ \A table \in {"casos", "abonos"} :
                /\ esquema'[table] # <<>>
                /\ \A column \in Columnas(esquema', table) :
                      Veces(esquema', table, column) = 1
                /\ Veces(esquema', table, "creado_por") = 1
          /\ (Creado => esquema' = esquema)]_vars

\* init_db has just run on a store that holds Cases and Payments.
C13_Witness == ret = Ok(0) /\ casos # {} /\ abonos # {} /\ Creado

\* A call raised no error and left every stored Case and Payment unchanged.
SinEfecto == ret'.exc = "none" /\ casos' = casos /\ abonos' = abonos

\* delete_caso, delete_abono and edit_caso with an id that matches no record.
IdAusente ==
    /\ \A i \in IdsF : (i \notin CasoIds /\ delete_caso(i)) => SinEfecto
    /\ \A a \in IdsF : (a \notin AbonoIds /\ delete_abono(a)) => SinEfecto
    /\ \A i \in IdsF, cl \in EditClientesF :
          (i \notin CasoIds /\ edit_caso(i, cl, D, Num(10), Abierto))
              => (SinEfecto /\ ret'.val = 0)

\* C14 as stated: deleteCase, deletePayment and editCase with an id that
\* matches no stored record raise no error and leave every Case and Payment
\* unchanged; editCase returns 0 then, and 1 when the id exists.
C14_AsStated ==
    [][/\ IdAusente
       /\ \A i \in IdsF, cl \in EditClientesF :
             (i \in CasoIds /\ edit_caso(i, cl, D, Num(10), Abierto)) => ret' = Ok(1)]_vars

\* C14 amended: as stated for ids that match no record; editCase returns 1
\* when the id exists and the client passed is not None, and with a None
\* client on an existing id it raises IntegrityError and changes nothing.
C14_Amended ==
    [][/\ IdAusente
       /\ \A i \in IdsF, cl \in EditClientesF :
             (i \in CasoIds /\ edit_caso(i, cl, D, Num(10), Abierto))
                 => IF cl # None
                    THEN ret' = Ok(1)
                    ELSE /\ ret'.exc = "IntegrityError"
                         /\ casos' = casos /\ abonos' = abonos]_vars

\* Nothing has been deleted from a store that holds Cases and Payments, and
\* the last call returned without error and without a new id: it was an edit
\* or a deletion with an id that matches no record.
C14_Witness ==
    /\ casos # {} /\ seqCasos = Cardinality(casos)
    /\ abonos # {} /\ seqAbonos = Cardinality(abonos)
    /\ ret = Ok(0)

\* C15: the id returned by a successful add_caso differs from the id of every
\* Case stored before in that store, deleted ones included, and it is the id
\* of the new Case; likewise for the id add_abono returns and the Payments.
C15_IdsNeverReused ==
    [][/\ \A cl \in Clientes, d \in Descripciones, v \in Valores, e \in Etapas :
             (ret'.exc = "none" /\ casos' # casos /\ add_caso(cl, d, v, e))
                 => (ret'.val \notin emitidos.casos /\ ret'.val \in CasoIds')
       /\ \A f \in Fechas, m \in Montos, i \in CasoIdArgs :
             (ret'.exc = "none" /\ abonos' # abonos /\ add_abono(f, m, i))
                 => (ret'.val \notin emitidos.abonos /\ ret'.val \in AbonoIds')]_vars

\* add_caso has just returned the id of a new Case after the Case with the
\* largest id so far was deleted (no Payment has been stored, so the id
\* returned is a Case id).
C15_Witness ==
    /\ seqAbonos = 0
    /\ ret.exc = "none" /\ ret.val >= 2 /\ ret.val = seqCasos
    /\ ret.val \in CasoIds
    /\ (ret.val - 1) \in emitidos.casos \ CasoIds

====
